---- MODULE Spec2Model ----
(***************************************************************************)
(* redis_collections.lists.List: a mutable sequence whose elements live in *)
(* a Redis list, with an optional local write-back cache.                  *)
(*                                                                         *)
(* The Redis list is the variable remote (a sequence of byte strings), the *)
(* instance's fields are cache and writeback.  Positions are 0-based as in *)
(* the source; TLA+ sequences are 1-based, so remote[i + 1] is position i. *)
(***************************************************************************)
EXTENDS Integers, Sequences, FiniteSets, TLC

\* ------------------------------------------------------------------ bounds
\* The longest list a call may build, the number of distinct values, and
\* the number of commands other clients send.
MaxLen == 3
MaxVal == 2
MaxOther == 1

Values == 1..MaxVal
\* Indices a caller passes: every position of the longest list, one beyond
\* each end, and their negative counterparts.
Indices == (0 - (MaxLen + 1))..(MaxLen + 1)

Min(a, b) == IF a < b THEN a ELSE b
Max(a, b) == IF a > b THEN a ELSE b
Abs(a) == IF a < 0 THEN 0 - a ELSE a

\* ------------------------------------------------------------------- codec
\* The byte string a value is stored as, and back.  The marker of a middle
\* pop is a raw uuid hex string, never the pickle of a value.
Pickle(v) == <<"pickle", v>>
Unpickle(b) == b[2]
Marker == <<"uuid4hex", 0>>
Nil == <<"nil", 0>>

PickleAll(vs) == [k \in 1..Len(vs) |-> Pickle(vs[k])]

\* ------------------------------------------------------- the Redis commands
\* Each takes the list l stored at the key and 0-based (possibly negative)
\* positions, as Redis does.
LLen(l) == Len(l)

AbsPos(l, i) == IF i < 0 THEN Len(l) + i ELSE i

InRange(l, i) == AbsPos(l, i) >= 0 /\ AbsPos(l, i) < Len(l)

\* LINDEX: the element, or nil when the position is out of range.
LIndex(l, i) == IF InRange(l, i) THEN l[AbsPos(l, i) + 1] ELSE Nil

\* LSET: only defined when InRange (Redis answers an error otherwise).
LSet(l, i, b) == [l EXCEPT ![AbsPos(l, i) + 1] = b]

\* LRANGE key s e: both ends inclusive, negative ends count from the tail.
LRange(l, s, e) ==
    LET n == Len(l)
        s1 == IF s < 0 THEN n + s ELSE s
        e1 == IF e < 0 THEN n + e ELSE e
        s2 == IF s1 < 0 THEN 0 ELSE s1
        e2 == IF e1 >= n THEN n - 1 ELSE e1
    IN  IF s2 > e1 \/ s2 >= n THEN <<>> ELSE SubSeq(l, s2 + 1, e2 + 1)

\* LTRIM key s e: keep exactly what LRANGE key s e returns.
LTrim(l, s, e) == LRange(l, s, e)

RPush(l, bs) == l \o bs

LPush(l, b) == <<b>> \o l

\* LREM key 1 b: remove the first element equal to b, if any.
RECURSIVE LRem(_, _)
LRem(l, b) ==
    IF l = <<>> THEN <<>>
    ELSE IF Head(l) = b THEN Tail(l)
    ELSE <<Head(l)>> \o LRem(Tail(l), b)

\* ------------------------------------------------------------- normalizers
\* List._normalize_index: (len_self, positive_index) for a length n.
NormalizeIndex(index, n) == IF index >= 0 THEN index ELSE n + index

\* A slice is a record of optional integers: <<>> is None, <<k>> is k.
None == <<>>
Some(k) == <<k>>
IsNone(o) == o = <<>>
Val(o) == o[1]

\* List._normalize_slice for a length n (step must not be 0).
NormalizeSlice(sl, n) ==
    LET step0 == IF IsNone(sl.step) THEN 1 ELSE Val(sl.step)
        forward == step0 > 0
        start0 == IF IsNone(sl.start) THEN (IF forward THEN 0 ELSE n - 1)
                  ELSE IF Val(sl.start) < 0 THEN Max(n + Val(sl.start), 0)
                  ELSE Min(Val(sl.start), n)
        stop0 == IF IsNone(sl.stop) THEN (IF forward THEN n ELSE 0 - 1)
                 ELSE IF Val(sl.stop) < 0 THEN Max(n + Val(sl.stop), 0)
                 ELSE Min(Val(sl.stop), n)
    IN  [start |-> IF forward THEN start0 ELSE Min(stop0 + 1, n),
         stop |-> IF forward THEN stop0 ELSE Min(start0 + 1, n),
         step |-> Abs(step0),
         forward |-> forward,
         len |-> n]

\* ------------------------------------------------------------ the cache
\* self.cache: a dict from absolute position to value.
EmptyCache == [k \in {} |-> 0]

CacheGet(c, i, default) == IF i \in DOMAIN c THEN c[i] ELSE default

CachePut(c, i, v) == [k \in (DOMAIN c) \cup {i} |-> IF k = i THEN v ELSE c[k]]

\* {i - 1: v for i, v in cache.items() if i != 0}
CacheAfterPopLeft(c) ==
    [k \in {i - 1 : i \in (DOMAIN c) \ {0}} |-> c[k + 1]]

\* {i: v for i, v in cache.items() if i != cache_index}
CacheAfterPopRight(c, ci) == [k \in (DOMAIN c) \ {ci} |-> c[k]]

\* pop_middle_trans: keys below cache_index stay, keys above move down.
CacheAfterPopMiddle(c, ci) ==
    [k \in {i \in DOMAIN c : i < ci} \cup {i - 1 : i \in {j \in DOMAIN c : j > ci}}
        |-> IF k < ci THEN c[k] ELSE c[k + 1]]

\* insert at index 0: {k + 1: v for k, v in cache.items()}, then cache[0].
CacheAfterInsertHead(c, v) ==
    [k \in {i + 1 : i \in DOMAIN c} \cup {0} |-> IF k = 0 THEN v ELSE c[k - 1]]

\* insert_middle_trans: keys below cache_index stay, the others move up,
\* then new_cache[cache_index] = value.
CacheAfterInsertMiddle(c, ci, v) ==
    [k \in {i \in DOMAIN c : i < ci} \cup {i + 1 : i \in {j \in DOMAIN c : j >= ci}}
           \cup {ci}
        |-> IF k = ci THEN v
            ELSE IF k < ci THEN c[k]
            ELSE c[k - 1]]

\* The keys a cache may hold within the model's bounds.
KeyRange == (0 - (MaxLen + 1))..(MaxLen + 1)
Bounded(c) == Cardinality(DOMAIN c) <= MaxLen /\ DOMAIN c \subseteq KeyRange

\* ------------------------------------------------------------------- state
VARIABLES
    remote,     \* the Redis list at self.key
    cache,      \* self.cache
    writeback,  \* self.writeback
    inScope,    \* inside a "with" block of the list
    pc,         \* where the owner is: "idle", inside a call, or "done"
    tx,         \* the frame of the call in progress or just finished
    dirty,      \* the key was modified since the owner's WATCH
    others      \* commands other clients have sent so far

vars == <<remote, cache, writeback, inScope, pc, tx, dirty, others>>

\* A Python slice object; None is an absent bound.
Slice(start, stop, step) == [start |-> start, stop |-> stop, step |-> step]

NoSlice == Slice(None, None, None)

NoTx ==
    [op |-> "none", index |-> 0, value |-> 0, sl |-> NoSlice, seq |-> <<>>,
     pre |-> <<>>, preCache |-> EmptyCache,
     len |-> 0, ci |-> 0, start |-> 0, stop |-> 0, left |-> <<>>, right |-> <<>>,
     queue |-> <<>>, status |-> "none", ret |-> 0, retSeq |-> <<>>,
     attempts |-> 0, seen |-> {}, lin |-> <<>>, interfered |-> FALSE,
     exc |-> FALSE, last |-> "none", lastCache |-> EmptyCache, again |-> FALSE]

\* The frame of a call entered now.
Call(op) == [NoTx EXCEPT !.op = op, !.pre = remote, !.preCache = cache,
                         !.lin = remote, !.status = "running"]

Init ==
    /\ remote = <<>>
    /\ cache = EmptyCache
    /\ writeback \in BOOLEAN
    /\ inScope = FALSE
    /\ pc = "idle"
    /\ tx = NoTx
    /\ dirty = FALSE
    /\ others = 0

\* The call has returned or raised; the owner is free to make the next one.
\* The idle frame remembers whether the call was sync(), and the cache
\* that sync() was called with.
Return ==
    /\ pc = "done"
    /\ pc' = "idle"
    /\ tx' = IF tx.op = "sync"
             THEN [NoTx EXCEPT !.last = "sync", !.lastCache = tx.preCache]
             ELSE NoTx
    /\ UNCHANGED <<remote, cache, writeback, inScope, dirty, others>>

\* A call that ends in this step: its frame records how.
Finish(frame, status) ==
    /\ pc' = "done"
    /\ tx' = [frame EXCEPT !.status = status]

\* ------------------------------------------------------- scalar get and set
\* List.__getitem__ with a scalar index, as a function of the state it is
\* called in.  Without write-back one LINDEX, and nil is IndexError; with it
\* getitem_trans reads the length, checks the bounds, and answers from the
\* cache or fetches the element and caches it.
GetOutcome(index) ==
    LET n == LLen(remote)
        ci == NormalizeIndex(index, n)
        fetched == Unpickle(LIndex(remote, index))
    IN  IF ~writeback
        THEN IF LIndex(remote, index) = Nil
             THEN [status |-> "IndexError", ret |-> 0, cache |-> cache]
             ELSE [status |-> "ok", ret |-> fetched, cache |-> cache]
        ELSE IF ci < 0 \/ ci >= n
        THEN [status |-> "IndexError", ret |-> 0, cache |-> cache]
        ELSE IF ci \in DOMAIN cache
        THEN [status |-> "ok", ret |-> cache[ci], cache |-> cache]
        ELSE [status |-> "ok", ret |-> fetched, cache |-> CachePut(cache, ci, fetched)]

GetItem(index) ==
    /\ pc = "idle"
    /\ LET out == GetOutcome(index)
       IN  /\ Finish([Call("get") EXCEPT !.index = index,
                                         !.len = LLen(remote),
                                         !.ci = NormalizeIndex(index, LLen(remote)),
                                         !.ret = out.ret], out.status)
           /\ cache' = out.cache
    /\ Bounded(cache')
    /\ UNCHANGED <<remote, writeback, inScope, dirty, others>>

\* The caller changes, in place, a mutable value it got from the list: the
\* object the cache holds at key i is now v, and Redis is not told.
MutateCached(i, v) ==
    /\ pc = "idle"
    /\ writeback
    /\ i \in DOMAIN cache
    /\ cache[i] # v
    /\ cache' = [cache EXCEPT ![i] = v]
    /\ UNCHANGED <<remote, writeback, inScope, pc, tx, dirty, others>>

\* List.__setitem__ with a scalar index: a buffered pipeline (nothing is
\* watched), so pipe.llen() returns the pipeline, not a length.  With
\* write-back, positive_index is index for index >= 0 and the sum
\* pipeline + index, a TypeError, for index < 0; the queued commands are
\* then dropped with the pipeline.  Otherwise LLEN and LSET run as one
\* MULTI/EXEC, and an LSET out of range is reported as IndexError.
SetItem(index, value) ==
    /\ pc = "idle"
    /\ LET f == [Call("set") EXCEPT !.index = index, !.value = value, !.ci = index]
       IN  IF writeback /\ index < 0
           THEN Finish(f, "TypeError") /\ UNCHANGED <<remote, cache>>
           ELSE IF ~InRange(remote, index)
           THEN Finish(f, "IndexError") /\ UNCHANGED <<remote, cache>>
           ELSE /\ Finish(f, "ok")
                /\ remote' = LSet(remote, index, Pickle(value))
                /\ cache' = IF writeback THEN CachePut(cache, index, value) ELSE cache
    /\ Bounded(cache')
    /\ UNCHANGED <<writeback, inScope, dirty, others>>

\* ----------------------------------------------------------- append, clear
\* List.append: RPUSH, then cache[len_self - 1] = value.
ListAppend(value) ==
    /\ pc = "idle"
    /\ Len(remote) < MaxLen
    /\ remote' = RPush(remote, <<Pickle(value)>>)
    /\ cache' = IF writeback THEN CachePut(cache, Len(remote') - 1, value) ELSE cache
    /\ Bounded(cache')
    /\ Finish([Call("append") EXCEPT !.value = value], "ok")
    /\ UNCHANGED <<writeback, inScope, dirty, others>>

\* List.clear: DEL, then cache.clear() with write-back.
Clear ==
    /\ pc = "idle"
    /\ remote' = <<>>
    /\ cache' = IF writeback THEN EmptyCache ELSE cache
    /\ Finish(Call("clear"), "ok")
    /\ UNCHANGED <<writeback, inScope, dirty, others>>

\* ------------------------------------------------------------------ insert
\* List.insert(0, value): LPUSH, every cached key moves up, cache[0] = value.
InsertHead(value) ==
    /\ pc = "idle"
    /\ Len(remote) < MaxLen
    /\ remote' = LPush(remote, Pickle(value))
    /\ cache' = IF writeback THEN CacheAfterInsertHead(cache, value) ELSE cache
    /\ Bounded(cache')
    /\ Finish([Call("insert") EXCEPT !.index = 0, !.value = value, !.ci = 0], "ok")
    /\ UNCHANGED <<writeback, inScope, dirty, others>>

\* List.insert(-1, value): RPUSH, cache[len_self + index] = value with the
\* length RPUSH returned.
InsertTail(value) ==
    /\ pc = "idle"
    /\ Len(remote) < MaxLen
    /\ remote' = RPush(remote, <<Pickle(value)>>)
    /\ cache' = IF writeback THEN CachePut(cache, Len(remote') - 1, value) ELSE cache
    /\ Bounded(cache')
    /\ Finish([Call("insert") EXCEPT !.index = 0 - 1, !.value = value,
                                     !.ci = Len(remote') - 1], "ok")
    /\ UNCHANGED <<writeback, inScope, dirty, others>>

\* List.insert with any other index enters insert_middle_trans: WATCH, then
\* LLEN and LRANGE cache_index -1 are answered at once.
InsertMiddleBegin(index, value) ==
    /\ pc = "idle"
    /\ index # 0 /\ index # 0 - 1
    /\ Len(remote) < MaxLen
    /\ writeback =>
         Bounded(CacheAfterInsertMiddle(cache, NormalizeIndex(index, LLen(remote)),
                                        value))
    /\ pc' = "insert_ltrim"
    /\ dirty' = FALSE
    /\ LET ci == NormalizeIndex(index, LLen(remote))
       IN  tx' = [Call("insert") EXCEPT !.index = index, !.value = value,
                                        !.len = LLen(remote), !.ci = ci,
                                        !.right = LRange(remote, ci, 0 - 1),
                                        !.attempts = 1]
    /\ UNCHANGED <<remote, cache, writeback, inScope, others>>

\* pipe.ltrim(key, 0, cache_index - 1): no MULTI was sent, so the command
\* runs at once.
InsertMiddleTrim ==
    /\ pc = "insert_ltrim"
    /\ remote' = LTrim(remote, 0, tx.ci - 1)
    /\ pc' = "insert_rpush"
    /\ tx' = [tx EXCEPT !.seen = @ \cup {remote'}]
    /\ UNCHANGED <<cache, writeback, inScope, dirty, others>>

\* pipe.rpush(key, pickle(value), *right_values), the cache renumbering,
\* and execute() on an empty command stack, which returns without EXEC.
InsertMiddlePush ==
    /\ pc = "insert_rpush"
    /\ remote' = RPush(remote, <<Pickle(tx.value)>> \o tx.right)
    /\ cache' = IF writeback THEN CacheAfterInsertMiddle(cache, tx.ci, tx.value)
                ELSE cache
    /\ Finish(tx, "ok")
    /\ UNCHANGED <<writeback, inScope, dirty, others>>

\* ------------------------------------------------- queued commands and EXEC
\* The commands queued after pipe.multi(), run by EXEC one after the other.
\* A command that fails (LSET out of range) is skipped and the rest still
\* run; the client then raises ResponseError.
CmdLSet(i, b) == [cmd |-> "lset", i |-> i, b |-> b]
CmdLRem(b) == [cmd |-> "lrem", i |-> 1, b |-> b]

ApplyCmd(l, c) ==
    IF c.cmd = "lset" THEN (IF InRange(l, c.i) THEN LSet(l, c.i, c.b) ELSE l)
    ELSE LRem(l, c.b)

RECURSIVE ApplyQueue(_, _)
ApplyQueue(l, q) ==
    IF q = <<>> THEN l ELSE ApplyQueue(ApplyCmd(l, Head(q)), Tail(q))

RECURSIVE QueueFails(_, _)
QueueFails(l, q) ==
    IF q = <<>> THEN FALSE
    ELSE \/ (Head(q).cmd = "lset" /\ ~InRange(l, Head(q).i))
         \/ QueueFails(ApplyCmd(l, Head(q)), Tail(q))

\* ------------------------------------------------------------ sync helper
\* List._sync_helper: one LSET per cached (index, value), here in ascending
\* key order; the caller's self.cache is then replaced by {}.
RECURSIVE SyncCommands(_)
SyncCommands(c) ==
    IF DOMAIN c = {} THEN <<>>
    ELSE LET k == CHOOSE i \in DOMAIN c : \A j \in DOMAIN c : i <= j
         IN  <<CmdLSet(k, Pickle(c[k]))>>
                 \o SyncCommands([j \in (DOMAIN c) \ {k} |-> c[j]])

\* --------------------------------------------------------------------- pop
\* List._pop_left: LPOP; the cached value for position 0 wins over the
\* popped one; with write-back every other key moves down.
PopLeft ==
    /\ pc = "idle"
    /\ LET f == [Call("pop") EXCEPT !.index = 0, !.len = LLen(remote)]
       IN  IF remote = <<>>
           THEN Finish(f, "IndexError") /\ UNCHANGED <<remote, cache>>
           ELSE /\ remote' = Tail(remote)
                /\ cache' = IF writeback THEN CacheAfterPopLeft(cache) ELSE cache
                /\ Finish([f EXCEPT !.ret = CacheGet(cache, 0, Unpickle(Head(remote)))],
                          "ok")
    /\ Bounded(cache')
    /\ UNCHANGED <<writeback, inScope, dirty, others>>

\* List._pop_right enters pop_right_trans: WATCH and LLEN; an empty list
\* raises IndexError.
PopRightBegin ==
    /\ pc = "idle"
    /\ dirty' = FALSE
    /\ LET f == [Call("pop") EXCEPT !.index = 0 - 1, !.len = LLen(remote),
                                    !.ci = NormalizeIndex(0 - 1, LLen(remote)),
                                    !.attempts = 1]
       IN  IF f.len = 0
           THEN Finish(f, "IndexError")
           ELSE pc' = "pop_rpop" /\ tx' = f
    /\ UNCHANGED <<remote, cache, writeback, inScope, others>>

\* pipe.rpop(key) runs at once; the cache entry at cache_index is dropped;
\* execute() finds nothing queued.
PopRightPop ==
    /\ pc = "pop_rpop"
    /\ remote' = IF remote = <<>> THEN <<>> ELSE SubSeq(remote, 1, Len(remote) - 1)
    /\ LET popped == IF remote = <<>> THEN 0 ELSE Unpickle(remote[Len(remote)])
       IN  Finish([tx EXCEPT !.ret = IF writeback
                                     THEN CacheGet(cache, tx.ci, popped)
                                     ELSE popped], "ok")
    /\ cache' = IF writeback THEN CacheAfterPopRight(cache, tx.ci) ELSE cache
    /\ UNCHANGED <<writeback, inScope, dirty, others>>

\* pop_middle_trans as it would be without the marker: the LREM is given
\* the element's own bytes, so the first element equal to it goes.
PopMiddleAttemptByValue(f) ==
    LET n == LLen(remote)
        ci == NormalizeIndex(f.index, n)
        g == [f EXCEPT !.len = n, !.ci = ci, !.attempts = @ + 1]
    IN  IF ci < 0 \/ ci >= n
        THEN Finish(g, "IndexError") /\ cache' = cache
        ELSE /\ pc' = "pop_exec"
             /\ tx' = [g EXCEPT
                    !.ret = IF writeback
                            THEN CacheGet(cache, ci, Unpickle(LIndex(remote, f.index)))
                            ELSE Unpickle(LIndex(remote, f.index)),
                    !.queue = <<CmdLRem(LIndex(remote, f.index))>>]
             /\ cache' = IF writeback THEN CacheAfterPopMiddle(cache, ci) ELSE cache

\* pop_middle_trans as it would be if the marker were written and never
\* removed.
PopMiddleAttemptNoRemove(f) ==
    LET n == LLen(remote)
        ci == NormalizeIndex(f.index, n)
        g == [f EXCEPT !.len = n, !.ci = ci, !.attempts = @ + 1]
    IN  IF ci < 0 \/ ci >= n
        THEN Finish(g, "IndexError") /\ cache' = cache
        ELSE /\ pc' = "pop_exec"
             /\ tx' = [g EXCEPT
                    !.ret = IF writeback
                            THEN CacheGet(cache, ci, Unpickle(LIndex(remote, f.index)))
                            ELSE Unpickle(LIndex(remote, f.index)),
                    !.queue = <<CmdLSet(f.index, Marker)>>]
             /\ cache' = IF writeback THEN CacheAfterPopMiddle(cache, ci) ELSE cache

\* One run of pop_middle_trans on frame f: LLEN, the bounds check, LINDEX,
\* MULTI, the queued LSET marker and LREM marker, and the cache renumbering,
\* which happens before EXEC.
PopMiddleAttempt(f) ==
    LET n == LLen(remote)
        ci == NormalizeIndex(f.index, n)
        g == [f EXCEPT !.len = n, !.ci = ci, !.attempts = @ + 1]
    IN  IF ci < 0 \/ ci >= n
        THEN Finish(g, "IndexError") /\ cache' = cache
        ELSE /\ pc' = "pop_exec"
             /\ tx' = [g EXCEPT
                    !.ret = IF writeback
                            THEN CacheGet(cache, ci, Unpickle(LIndex(remote, f.index)))
                            ELSE Unpickle(LIndex(remote, f.index)),
                    !.queue = <<CmdLSet(f.index, Marker), CmdLRem(Marker)>>]
             /\ cache' = IF writeback THEN CacheAfterPopMiddle(cache, ci) ELSE cache

\* List._pop_middle(index), for an index other than 0 and -1: WATCH, then
\* the first run of the transaction body.
PopMiddleBegin(index) ==
    /\ pc = "idle"
    /\ index # 0 /\ index # 0 - 1
    /\ dirty' = FALSE
    /\ PopMiddleAttempt([Call("pop") EXCEPT !.index = index])
    /\ Bounded(cache')
    /\ UNCHANGED <<remote, writeback, inScope, others>>

\* execute(): EXEC fails when the key changed since WATCH, and the body is
\* run again after a new WATCH; otherwise the queued commands take effect
\* together.
PopMiddleExec ==
    /\ pc = "pop_exec"
    /\ IF dirty
       THEN /\ dirty' = FALSE
            /\ PopMiddleAttempt(tx)
            /\ remote' = remote
       ELSE /\ remote' = ApplyQueue(remote, tx.queue)
            /\ Finish(tx, "ok")
            /\ UNCHANGED <<cache, dirty>>
    /\ UNCHANGED <<writeback, inScope, others>>

\* ------------------------------------------------------- sync and the scope
\* sync_trans as it would be if the cache were kept after the LSETs.
SyncAttemptKeepCache(f) ==
    /\ pc' = "sync_exec"
    /\ tx' = [f EXCEPT !.queue = SyncCommands(cache), !.attempts = @ + 1]
    /\ cache' = cache

\* One run of sync_trans on frame f: MULTI, the LSETs of _sync_helper are
\* queued, and self.cache = {} before EXEC is sent.
SyncAttempt(f) ==
    /\ pc' = "sync_exec"
    /\ tx' = [f EXCEPT !.queue = SyncCommands(cache), !.attempts = @ + 1]
    /\ cache' = EmptyCache

\* List.sync(): WATCH, then the first run of sync_trans.  The frame notes
\* a call that directly follows another sync().
SyncBegin ==
    /\ pc = "idle"
    /\ dirty' = FALSE
    /\ SyncAttempt([Call("sync") EXCEPT !.again = (tx.last = "sync"),
                                        !.lastCache = tx.lastCache])
    /\ UNCHANGED <<remote, writeback, inScope, others>>

\* List.__enter__: write-back is switched on.
Enter ==
    /\ pc = "idle"
    /\ ~inScope
    /\ writeback' = TRUE
    /\ inScope' = TRUE
    /\ UNCHANGED <<remote, cache, pc, tx, dirty, others>>

\* List.__exit__, reached when the body of the "with" block ends or raises
\* (exc): it calls sync() and returns None.
Exit(exc) ==
    /\ pc = "idle"
    /\ inScope
    /\ inScope' = FALSE
    /\ dirty' = FALSE
    /\ SyncAttempt([Call("exit") EXCEPT !.exc = exc])
    /\ UNCHANGED <<remote, writeback, others>>

\* execute() of sync_trans: EXEC fails when the key changed since WATCH and
\* sync_trans runs again, on the cache as it is by then; otherwise every
\* queued LSET runs, and one out of range surfaces as ResponseError.
SyncExec ==
    /\ pc = "sync_exec"
    /\ IF dirty
       THEN /\ dirty' = FALSE
            /\ SyncAttempt(tx)
            /\ remote' = remote
       ELSE /\ remote' = ApplyQueue(remote, tx.queue)
            /\ Finish(tx, IF QueueFails(remote, tx.queue) THEN "ResponseError" ELSE "ok")
            /\ UNCHANGED <<cache, dirty>>
    /\ UNCHANGED <<writeback, inScope, others>>

\* ---------------------------------------------------------- remove, extend
\* List.remove: a buffered pipeline; with write-back the LSETs of
\* _sync_helper go first and the cache is emptied; then LREM key 1 value;
\* all of it runs as one MULTI/EXEC.
Remove(value) ==
    /\ pc = "idle"
    /\ LET q == (IF writeback THEN SyncCommands(cache) ELSE <<>>)
                    \o <<CmdLRem(Pickle(value))>>
       IN  /\ remote' = ApplyQueue(remote, q)
           /\ Finish([Call("remove") EXCEPT !.value = value, !.queue = q],
                     IF QueueFails(remote, q) THEN "ResponseError" ELSE "ok")
    /\ cache' = IF writeback THEN EmptyCache ELSE cache
    /\ UNCHANGED <<writeback, inScope, dirty, others>>

\* List.extend with a plain iterable: extend_trans sends one RPUSH, which
\* Redis rejects when there is no value to push, and caches the new tail.
Extend(values) ==
    /\ pc = "idle"
    /\ Len(remote) + Len(values) <= MaxLen
    /\ dirty' = FALSE
    /\ LET f == [Call("extend") EXCEPT !.seq = values, !.attempts = 1]
       IN  IF values = <<>>
           THEN Finish(f, "ResponseError") /\ UNCHANGED <<remote, cache>>
           ELSE /\ remote' = RPush(remote, PickleAll(values))
                /\ cache' = IF writeback
                            THEN [k \in (DOMAIN cache)
                                        \cup (Len(remote)..(Len(remote') - 1))
                                    |-> IF k >= Len(remote) /\ k < Len(remote')
                                        THEN values[k - Len(remote) + 1]
                                        ELSE cache[k]]
                            ELSE cache
                /\ Finish(f, "ok")
    /\ Bounded(cache')
    /\ UNCHANGED <<writeback, inScope, others>>

\* ------------------------------------------------------------------- index
\* index_trans on the list as __iter__ gives it (the cached value where a
\* position is cached).  "start or 0" and "stop or len_self": None and 0
\* both give the default.  The first element equal to value at or after
\* normal_start is returned if it is before normal_stop, else ValueError.
IndexOutcome(value, start, stop) ==
    LET n == LLen(remote)
        data == [k \in 1..n |-> CacheGet(cache, k - 1, Unpickle(remote[k]))]
        start1 == IF IsNone(start) \/ start = Some(0) THEN 0 ELSE Val(start)
        normal_start == NormalizeIndex(start1, n)
        stop1 == IF IsNone(stop) \/ stop = Some(0) THEN n ELSE Val(stop)
        normal_stop == NormalizeIndex(stop1, n)
        hits == {i \in 0..(n - 1) : data[i + 1] = value /\ i >= normal_start}
        first == CHOOSE i \in hits : \A j \in hits : i <= j
    IN  IF hits = {} THEN [status |-> "ValueError", ret |-> 0]
        ELSE IF first >= normal_stop THEN [status |-> "ValueError", ret |-> 0]
        ELSE [status |-> "ok", ret |-> first]

\* List.index(value, start, stop): nothing is written.
Index(value, start, stop) ==
    /\ pc = "idle"
    /\ LET out == IndexOutcome(value, start, stop)
       IN  Finish([Call("index") EXCEPT !.value = value,
                                        !.sl = Slice(start, stop, None),
                                        !.len = LLen(remote),
                                        !.ret = out.ret], out.status)
    /\ UNCHANGED <<remote, cache, writeback, inScope, dirty, others>>

\* ------------------------------------------------------------------ slices
\* Every step-th element of s, from the first: itertools.islice(s, None, None, step).
RECURSIVE EveryNth(_, _)
EveryNth(s, step) ==
    IF s = <<>> THEN <<>>
    ELSE <<Head(s)>> \o EveryNth(SubSeq(s, step + 1, Len(s)), step)

Reversed(s) == [k \in 1..Len(s) |-> s[Len(s) + 1 - k]]

\* get_slice_trans for a length-n list: the range of _normalize_slice is
\* fetched with LRANGE start max(stop - 1, 0), cached values replace fetched
\* ones, then the result is reversed and sub-sampled.
GetSliceResult(sl) ==
    LET ns == NormalizeSlice(sl, LLen(remote))
        fetched == LRange(remote, ns.start, Max(ns.stop - 1, 0))
        ret == [k \in 1..Len(fetched) |->
                    CacheGet(cache, ns.start + k - 1, Unpickle(fetched[k]))]
        ordered == IF ns.forward THEN ret ELSE Reversed(ret)
    IN  IF ns.start = ns.stop THEN <<>>
        ELSE IF ns.step # 1 THEN EveryNth(ordered, ns.step)
        ELSE ordered

\* List.__getitem__ with a slice: step 0 is ValueError.
GetSlice(start, stop, step) ==
    /\ pc = "idle"
    /\ LET sl == Slice(start, stop, step)
           f == [Call("getslice") EXCEPT !.sl = sl, !.len = LLen(remote)]
       IN  IF step = Some(0)
           THEN Finish(f, "ValueError")
           ELSE Finish([f EXCEPT !.retSeq = GetSliceResult(sl)], "ok")
    /\ UNCHANGED <<remote, cache, writeback, inScope, dirty, others>>

\* _sync_helper on a pipeline that is watching and has sent no MULTI: each
\* LSET runs at once, and the first one out of range raises before
\* self.cache = {} is reached.
RECURSIVE ApplyUntilFail(_, _)
ApplyUntilFail(l, q) ==
    IF q = <<>> THEN l
    ELSE IF Head(q).cmd = "lset" /\ ~InRange(l, Head(q).i) THEN l
    ELSE ApplyUntilFail(ApplyCmd(l, Head(q)), Tail(q))

FlushNow(frame, next) ==
    /\ remote' = ApplyUntilFail(remote, SyncCommands(cache))
    /\ IF QueueFails(remote, SyncCommands(cache))
       THEN Finish(frame, "ResponseError") /\ cache' = cache
       ELSE /\ pc' = next
            /\ tx' = [frame EXCEPT !.seen = @ \cup {remote'}]
            /\ cache' = EmptyCache

\* List._del_slice (step None) enters del_slice_trans: WATCH, LLEN and
\* _normalize_slice; an empty range returns at once.
DelSliceBegin(start, stop) ==
    /\ pc = "idle"
    /\ dirty' = FALSE
    /\ LET sl == Slice(start, stop, None)
           ns == NormalizeSlice(sl, LLen(remote))
           f == [Call("delslice") EXCEPT !.sl = sl, !.len = ns.len,
                                         !.start = ns.start, !.stop = ns.stop,
                                         !.attempts = 1]
       IN  /\ Len(LRange(remote, 0, Max(ns.start - 2, 0)))
                + Len(LRange(remote, ns.stop + 1, 0 - 1)) <= MaxLen
           /\ IF ns.start = ns.stop
              THEN Finish(f, "ok")
              ELSE /\ pc' = IF writeback THEN "delslice_flush" ELSE "delslice_write"
                   /\ tx' = f
    /\ UNCHANGED <<remote, cache, writeback, inScope, others>>

\* if self.writeback: self._sync_helper(pipe)
DelSliceFlush ==
    /\ pc = "delslice_flush"
    /\ FlushNow(tx, "delslice_write")
    /\ UNCHANGED <<writeback, inScope, dirty, others>>

\* The four cases of del_slice_trans.  The whole list: clear().  A range
\* at the head: LTRIM stop + 1 -1.  A range at the tail: LTRIM 0 start - 1.
\* Otherwise both remainders are fetched and the key is deleted.
DelSliceWrite ==
    /\ pc = "delslice_write"
    /\ IF tx.start = 0 /\ tx.stop = tx.len
       THEN /\ remote' = <<>>
            /\ cache' = IF writeback THEN EmptyCache ELSE cache
            /\ Finish(tx, "ok")
       ELSE IF tx.start = 0 /\ tx.stop # tx.len
       THEN /\ remote' = LTrim(remote, tx.stop + 1, 0 - 1)
            /\ cache' = cache
            /\ Finish(tx, "ok")
       ELSE IF tx.start # 0 /\ tx.stop = tx.len
       THEN /\ remote' = LTrim(remote, 0, tx.start - 1)
            /\ cache' = cache
            /\ Finish(tx, "ok")
       ELSE /\ remote' = <<>>
            /\ cache' = cache
            /\ pc' = "delslice_rpush"
            /\ tx' = [tx EXCEPT
                    !.left = LRange(remote, 0, Max(tx.start - 2, 0)),
                    !.right = LRange(remote, tx.stop + 1, 0 - 1),
                    !.seen = @ \cup {<<>>}]
    /\ UNCHANGED <<writeback, inScope, dirty, others>>

\* pipe.rpush(key, *all_values): Redis rejects an RPUSH without values.
DelSlicePush ==
    /\ pc = "delslice_rpush"
    /\ IF tx.left \o tx.right = <<>>
       THEN remote' = remote /\ Finish(tx, "ResponseError")
       ELSE remote' = RPush(remote, tx.left \o tx.right) /\ Finish(tx, "ok")
    /\ UNCHANGED <<cache, writeback, inScope, dirty, others>>

\* List._set_slice (step None) enters set_slice_trans: WATCH, LLEN and
\* _normalize_slice.
SetSliceBegin(start, stop, values) ==
    /\ pc = "idle"
    /\ dirty' = FALSE
    /\ LET sl == Slice(start, stop, None)
           ns == NormalizeSlice(sl, LLen(remote))
       IN  /\ Len(LRange(remote, 0, ns.start - 1)) + Len(values)
                + Len(LRange(remote, ns.stop, 0 - 1)) <= MaxLen
           /\ tx' = [Call("setslice") EXCEPT !.sl = sl, !.seq = values,
                                             !.len = ns.len, !.start = ns.start,
                                             !.stop = ns.stop, !.attempts = 1]
    /\ pc' = IF writeback THEN "setslice_flush" ELSE "setslice_delete"
    /\ UNCHANGED <<remote, cache, writeback, inScope, others>>

SetSliceFlush ==
    /\ pc = "setslice_flush"
    /\ FlushNow(tx, "setslice_delete")
    /\ UNCHANGED <<writeback, inScope, dirty, others>>

\* The remainders left of start and from stop on are fetched, then DEL.
SetSliceDelete ==
    /\ pc = "setslice_delete"
    /\ remote' = <<>>
    /\ pc' = "setslice_rpush"
    /\ tx' = [tx EXCEPT
            !.left = IF tx.start = 0 THEN <<>> ELSE LRange(remote, 0, tx.start - 1),
            !.right = IF tx.stop = tx.len THEN <<>> ELSE LRange(remote, tx.stop, 0 - 1),
            !.seen = @ \cup {<<>>}]
    /\ UNCHANGED <<cache, writeback, inScope, dirty, others>>

\* pipe.rpush(key, *chain(left_values, middle_values, right_values))
SetSlicePush ==
    /\ pc = "setslice_rpush"
    /\ LET all == tx.left \o PickleAll(tx.seq) \o tx.right
       IN  IF all = <<>>
           THEN remote' = remote /\ Finish(tx, "ResponseError")
           ELSE remote' = RPush(remote, all) /\ Finish(tx, "ok")
    /\ UNCHANGED <<cache, writeback, inScope, dirty, others>>

\* ----------------------------------------------------------- other clients
\* Another client of the same key pushes a value on the tail.  Any change
\* of the key marks the owner's WATCH.
OtherRPush(v) ==
    /\ others < MaxOther
    /\ Len(remote) < MaxLen
    /\ remote' = RPush(remote, <<Pickle(v)>>)
    /\ others' = others + 1
    /\ dirty' = TRUE
    /\ tx' = IF pc \in {"idle", "done"} THEN tx
             ELSE [tx EXCEPT !.interfered = TRUE,
                             !.lin = RPush(@, <<Pickle(v)>>)]
    /\ UNCHANGED <<cache, writeback, inScope, pc>>

\* Another client pops the tail.
OtherRPop ==
    /\ others < MaxOther
    /\ remote # <<>>
    /\ remote' = SubSeq(remote, 1, Len(remote) - 1)
    /\ others' = others + 1
    /\ dirty' = TRUE
    /\ tx' = IF pc \in {"idle", "done"} THEN tx
             ELSE [tx EXCEPT !.interfered = TRUE,
                             !.lin = IF @ = <<>> THEN @ ELSE SubSeq(@, 1, Len(@) - 1)]
    /\ UNCHANGED <<cache, writeback, inScope, pc>>

\* ---------------------------------------------------------- specifications
Sequences2 == UNION {[1..n -> Values] : n \in 0..2}

\* A single owner, no other client.
Next ==
    \/ Return
    \/ \E i \in Indices : GetItem(i)
    \/ \E i \in KeyRange, v \in Values : MutateCached(i, v)
    \/ \E i \in Indices, v \in Values : SetItem(i, v)
    \/ \E v \in Values : ListAppend(v)
    \/ Clear
    \/ \E v \in Values : InsertHead(v)
    \/ \E v \in Values : InsertTail(v)
    \/ \E i \in Indices, v \in Values : InsertMiddleBegin(i, v)
    \/ InsertMiddleTrim
    \/ InsertMiddlePush
    \/ PopLeft
    \/ PopRightBegin
    \/ PopRightPop
    \/ \E i \in Indices : PopMiddleBegin(i)
    \/ PopMiddleExec
    \/ SyncBegin
    \/ Enter
    \/ \E e \in BOOLEAN : Exit(e)
    \/ SyncExec
    \/ \E v \in Values : Remove(v)
    \/ \E vs \in Sequences2 : Extend(vs)

Spec == Init /\ [][Next]_vars

\* The slice calls, from any list and cache the scalar calls can leave
\* behind with valid keys.
MaxStep == 2
Bounds == {None} \cup {Some(i) : i \in Indices}
Steps == {None} \cup {Some(k) : k \in (0 - MaxStep)..MaxStep}
Lists == UNION {[1..n -> {Pickle(v) : v \in Values}] : n \in 0..MaxLen}
Caches(n) == UNION {[K -> Values] : K \in SUBSET (0..(n - 1))}

InitSlice ==
    /\ remote \in Lists
    /\ writeback \in BOOLEAN
    /\ cache \in IF writeback THEN Caches(Len(remote)) ELSE {EmptyCache}
    /\ inScope = FALSE
    /\ pc = "idle"
    /\ tx = NoTx
    /\ dirty = FALSE
    /\ others = 0

NextSlice ==
    \/ Return
    \/ \E a \in Bounds, b \in Bounds, k \in Steps : GetSlice(a, b, k)
    \/ \E a \in Bounds, b \in Bounds : DelSliceBegin(a, b)
    \/ DelSliceFlush
    \/ DelSliceWrite
    \/ DelSlicePush
    \/ \E a \in Bounds, b \in Bounds, vs \in Sequences2 :
          SetSliceBegin(a, b, vs)
    \/ SetSliceFlush
    \/ SetSliceDelete
    \/ SetSlicePush

SpecSlice == InitSlice /\ [][NextSlice]_vars

\* The pops, from any list and cache with valid keys.
NextPop ==
    \/ Return
    \/ PopLeft
    \/ PopRightBegin
    \/ PopRightPop
    \/ \E i \in Indices : PopMiddleBegin(i)
    \/ PopMiddleExec

SpecPop == InitSlice /\ [][NextPop]_vars

\* index(), from any list and cache with valid keys.
NextIndex ==
    \/ Return
    \/ \E v \in Values, a \in Bounds, b \in Bounds : Index(v, a, b)

SpecIndex == InitSlice /\ [][NextIndex]_vars

\* The owner and other clients of the same key.  The owner makes the calls
\* that run as transactions, and the ones that fill the list and the cache.
NextConc ==
    \/ Return
    \/ \E v \in Values : ListAppend(v)
    \/ \E i \in Indices, v \in Values : SetItem(i, v)
    \/ \E i \in KeyRange, v \in Values : MutateCached(i, v)
    \/ \E i \in Indices, v \in Values : InsertMiddleBegin(i, v)
    \/ InsertMiddleTrim
    \/ InsertMiddlePush
    \/ PopRightBegin
    \/ PopRightPop
    \/ \E i \in Indices : PopMiddleBegin(i)
    \/ PopMiddleExec
    \/ SyncBegin
    \/ SyncExec
    \/ \E vs \in Sequences2 : Extend(vs)
    \/ \E v \in Values : OtherRPush(v)
    \/ OtherRPop

SpecConc == Init /\ [][NextConc]_vars

\* The middle pop among other clients of the key, from any list and cache
\* with valid keys.
NextPopConc ==
    \/ Return
    \/ \E i \in Indices : PopMiddleBegin(i)
    \/ PopMiddleExec
    \/ \E v \in Values : OtherRPush(v)
    \/ OtherRPop

SpecPopConc == InitSlice /\ [][NextPopConc]_vars

\* A single owner in write-back mode that only appends, inserts at a
\* position 0..length, sets, gets and pops at an index in range, and changes
\* cached values in place.
InitOverlay == Init /\ writeback

NextOverlay ==
    \/ Return
    \/ \E v \in Values : ListAppend(v)
    \/ \E v \in Values : InsertHead(v)
    \/ \E i \in Indices, v \in Values :
          i >= 1 /\ i <= Len(remote) /\ InsertMiddleBegin(i, v)
    \/ InsertMiddleTrim
    \/ InsertMiddlePush
    \/ \E i \in Indices, v \in Values : InRange(remote, i) /\ SetItem(i, v)
    \/ \E i \in Indices : InRange(remote, i) /\ GetItem(i)
    \/ \E i \in KeyRange, v \in Values : MutateCached(i, v)
    \/ remote # <<>> /\ PopLeft
    \/ remote # <<>> /\ PopRightBegin
    \/ PopRightPop
    \/ \E i \in Indices : InRange(remote, i) /\ PopMiddleBegin(i)
    \/ PopMiddleExec

SpecOverlay == InitOverlay /\ [][NextOverlay]_vars

\* sync(), from any list and any cache the scalar calls can leave behind:
\* keys that are positions of the list, and the keys just outside either end
\* that a middle insert beyond the ends leaves.  Gets and in-place changes
\* fill the cache again between two calls.
CachesAround(n) == UNION {[K -> Values] : K \in SUBSET ((0 - 1)..n)}

InitSync ==
    /\ remote \in Lists
    /\ writeback \in BOOLEAN
    /\ cache \in IF writeback THEN CachesAround(Len(remote)) ELSE {EmptyCache}
    /\ inScope = FALSE
    /\ pc = "idle"
    /\ tx = NoTx
    /\ dirty = FALSE
    /\ others = 0

NextSync ==
    \/ Return
    \/ \E i \in Indices : GetItem(i)
    \/ \E i \in KeyRange, v \in Values : MutateCached(i, v)
    \/ SyncBegin
    \/ SyncExec

SpecSync == InitSync /\ [][NextSync]_vars

\* ------------------------------------------------------------------ claims
\* The owner's call has just ended (returned or raised).
Done(op) == pc = "done" /\ tx.op = op

\* Sequence l without position p; l with b put at position p.
RemoveAt(l, p) == SubSeq(l, 1, p) \o SubSeq(l, p + 2, Len(l))
InsertAt(l, p, b) == SubSeq(l, 1, p) \o <<b>> \o SubSeq(l, p + 1, Len(l))

C2_CacheKeysValid ==
    (writeback /\ pc = "idle") =>
        \A i \in DOMAIN cache : 0 <= i /\ i < Len(remote)

\* C3: when another client changed the list while a middle insert ran, the
\* insert ends with every element of the list as that client left it, once
\* each, and the value at its position in that list.
C3_InsertRetriedOnChange ==
    (Done("insert") /\ tx.interfered
        /\ NormalizeIndex(tx.index, Len(tx.lin)) >= 1
        /\ NormalizeIndex(tx.index, Len(tx.lin)) <= Len(tx.lin)) =>
        remote = InsertAt(tx.lin, NormalizeIndex(tx.index, Len(tx.lin)),
                          Pickle(tx.value))

\* C4: a reader never sees an intermediate state of a middle insert or a
\* middle pop (nor of a slice assign or an interior slice delete): every
\* list visible while the call ran is the list before it or the list after.
C4_AtomicVisibility ==
    (pc = "done" /\ tx.op \in {"insert", "pop", "setslice", "delslice"}
        /\ ~tx.interfered) =>
        tx.seen \subseteq {tx.pre, remote}

\* C5: when sync() returns after its transaction was aborted and run
\* again, the cache is empty and every pair (i, v) cached at the call, with
\* i still a position of the list, has v stored at position i.
C5_SyncKeepsWritesOnRetry ==
    (Done("sync") /\ tx.attempts > 1) =>
        /\ cache = EmptyCache
        /\ \A i \in DOMAIN tx.preCache :
              (0 <= i /\ i < Len(remote)) => remote[i + 1] = Pickle(tx.preCache[i])

\* C6: leaving the scope runs sync once; right after, the cache is empty
\* and every index cached at exit holds its cached value remotely.
C6_ScopeExitFlushes ==
    Done("exit") =>
        /\ tx.attempts = 1
        /\ cache = EmptyCache
        /\ \A i \in DOMAIN tx.preCache :
              /\ 0 <= i /\ i < Len(remote)
              /\ remote[i + 1] = Pickle(tx.preCache[i])

\* C7: pop(index) or delete(index), for an index other than 0 and -1 whose
\* absolute position p is in range, leaves old[0:p] ++ old[p+1:n]: one
\* element shorter, and no other element equal to old[p] is touched.
C7_MiddleDeleteByPosition ==
    (Done("pop") /\ tx.index # 0 /\ tx.index # 0 - 1 /\ InRange(tx.pre, tx.index)) =>
        /\ tx.status = "ok"
        /\ remote = RemoveAt(tx.pre, AbsPos(tx.pre, tx.index))
        /\ Len(remote) = Len(tx.pre) - 1

\* A middle pop removed position p of a list that holds the same element
\* at an earlier position too, where removing that one gives another list.
C7_Witness ==
    /\ Done("pop") /\ tx.index # 0 /\ tx.index # 0 - 1 /\ tx.status = "ok"
    /\ \E q \in 1..Len(tx.pre) :
          /\ q < AbsPos(tx.pre, tx.index) + 1
          /\ tx.pre[q] = tx.pre[AbsPos(tx.pre, tx.index) + 1]
          /\ RemoveAt(tx.pre, q - 1) # remote
    /\ Len(remote) = Len(tx.pre) - 1

\* The cache c after an insertion at position p of value v, by the rule:
\* keys >= p move up by one, keys < p stay, p maps to v.
InsertRule(c, p, v) ==
    [k \in {i \in DOMAIN c : i < p} \cup {i + 1 : i \in {j \in DOMAIN c : j >= p}}
           \cup {p}
        |-> IF k = p THEN v ELSE IF k < p THEN c[k] ELSE c[k - 1]]

\* C9: with write-back, after insert(index, value) put the value at position
\* p of the list, the cache is the old cache renumbered for an insertion at
\* p: keys >= p one up, keys < p unchanged, p -> value, nothing else.
C9_InsertRenumbering ==
    (Done("insert") /\ writeback /\ tx.status = "ok") =>
        \E p \in 0..Len(tx.pre) :
            /\ remote = InsertAt(tx.pre, p, Pickle(tx.value))
            /\ cache = InsertRule(tx.preCache, p, tx.value)

PyAdjust(o, n, step, dflt) ==
    IF IsNone(o) THEN dflt
    ELSE LET i == IF Val(o) < 0 THEN Val(o) + n ELSE Val(o)
         IN  IF i < 0 THEN (IF step < 0 THEN 0 - 1 ELSE 0)
             ELSE IF i >= n THEN (IF step < 0 THEN n - 1 ELSE n)
             ELSE i

RECURSIVE PyWalk(_, _, _, _)
PyWalk(e, i, stop, step) ==
    IF (step > 0 /\ i >= stop) \/ (step < 0 /\ i <= stop) THEN <<>>
    ELSE <<e[i + 1]>> \o PyWalk(e, i + step, stop, step)

PySlice(e, sl) ==
    LET n == Len(e)
        step == IF IsNone(sl.step) THEN 1 ELSE Val(sl.step)
        start == PyAdjust(sl.start, n, step, IF step < 0 THEN n - 1 ELSE 0)
        stop == PyAdjust(sl.stop, n, step, IF step < 0 THEN 0 - 1 ELSE n)
    IN  PyWalk(e, start, stop, step)

\* The list as the owner sees it: the cached value where a position is
\* cached, the remote one otherwise.
Effective(l, c) == [k \in 1..Len(l) |-> CacheGet(c, k - 1, Unpickle(l[k]))]

\* C8: get(slice) returns what Python's slicing returns on the effective
\* contents, for every start, stop and non-zero step.
C8_SliceMatchesPython ==
    (Done("getslice") /\ tx.sl.step # Some(0)) =>
        /\ tx.status = "ok"
        /\ tx.retSeq = PySlice(Effective(tx.pre, tx.preCache), tx.sl)

\* C11: for a single owner, a sync() that directly follows a sync() leaves
\* the remote list as the first one left it, and the cache is empty after
\* each of the two calls.
C11_SyncIdempotent ==
    Done("sync") =>
        /\ cache = EmptyCache
        /\ tx.again => (remote = tx.pre /\ tx.preCache = EmptyCache)

\* A second sync() in a row has returned, after the first one wrote cached
\* values back to a list that holds two different elements.
C11_Witness ==
    /\ Done("sync") /\ tx.again /\ tx.status = "ok"
    /\ \E i \in DOMAIN tx.lastCache :
          /\ 0 <= i /\ i < Len(remote)
          /\ remote[i + 1] = Pickle(tx.lastCache[i])
          /\ \E k \in 1..Len(remote) : remote[k] # remote[i + 1]
    /\ remote = tx.pre
    /\ cache = EmptyCache

\* C12: index(value, start, stop) returns the smallest i with
\* start <= i < stop whose effective element equals value, start and stop
\* normalized against the length (0 and the length when unspecified), and
\* fails with the not-found condition exactly when there is none, stop = 0
\* and negative bounds included; the list and the cache are left alone.
C12_IndexFirstInRange ==
    Done("index") =>
        LET n == Len(tx.pre)
            e == Effective(tx.pre, tx.preCache)
            lo == IF IsNone(tx.sl.start) THEN 0 ELSE NormalizeIndex(Val(tx.sl.start), n)
            hi == IF IsNone(tx.sl.stop) THEN n ELSE NormalizeIndex(Val(tx.sl.stop), n)
            found == {i \in 0..(n - 1) : lo <= i /\ i < hi /\ e[i + 1] = tx.value}
        IN  /\ remote = tx.pre
            /\ cache = tx.preCache
            /\ IF found = {}
               THEN tx.status = "ValueError"
               ELSE /\ tx.status = "ok"
                    /\ tx.ret \in found
                    /\ \A j \in found : tx.ret <= j

\* Sequence e without its first element equal to v (e itself if there is
\* none).
RECURSIVE RemoveFirst(_, _)
RemoveFirst(e, v) ==
    IF e = <<>> THEN <<>>
    ELSE IF Head(e) = v THEN Tail(e)
    ELSE <<Head(e)>> \o RemoveFirst(Tail(e), v)

\* C13: remove(value) returns without error; the list it leaves is the
\* list as the owner saw it (cached values written back first) without the
\* first occurrence of value, and unchanged when value does not occur;
\* with write-back the cache is empty afterwards.
C13_RemoveFirstOccurrence ==
    Done("remove") =>
        /\ tx.status = "ok"
        /\ remote = PickleAll(RemoveFirst(Effective(tx.pre, tx.preCache), tx.value))
        /\ writeback => cache = EmptyCache

\* C14: insert(index, value) with an index other than 0 and -1 whose
\* absolute position p (index, or n + index when negative) is in 0..n
\* leaves old[0:p] ++ [value] ++ old[p:n], of length n + 1; a negative
\* index with p = 0 is included.
C14_MiddleInsertResult ==
    (Done("insert") /\ tx.index # 0 /\ tx.index # 0 - 1
        /\ NormalizeIndex(tx.index, Len(tx.pre)) >= 0
        /\ NormalizeIndex(tx.index, Len(tx.pre)) <= Len(tx.pre)) =>
        /\ remote = InsertAt(tx.pre, NormalizeIndex(tx.index, Len(tx.pre)),
                             Pickle(tx.value))
        /\ Len(remote) = Len(tx.pre) + 1

\* The list a slice call works on: with write-back the cached values are
\* written back before any change is made.
Flushed(l, c, wb) == IF wb THEN PickleAll(Effective(l, c)) ELSE l

\* C15: delete(slice), step unspecified, with [start, stop) the range of
\* the slice normalizer, leaves old[0:start] ++ old[stop:n]: unchanged for
\* an empty range, empty for the whole list, and the remainder for a range
\* at the head, at the tail or inside.
C15_SliceDeleteRange ==
    Done("delslice") =>
        LET n == Len(tx.pre)
            ns == NormalizeSlice(tx.sl, n)
            old == Flushed(tx.pre, tx.preCache, writeback)
        IN  IF ns.start >= ns.stop
            THEN remote = tx.pre
            ELSE remote = SubSeq(old, 1, ns.start) \o SubSeq(old, ns.stop + 1, n)

\* C16: set(slice, values), step unspecified, leaves the values in order
\* from position start, the addressed range [start, stop) removed, and
\* every old element outside it once, in its old order; when the range is
\* empty (start >= stop) nothing old is removed or duplicated and the
\* length is n + |values|.
C16_SliceAssignRange ==
    Done("setslice") =>
        LET n == Len(tx.pre)
            ns == NormalizeSlice(tx.sl, n)
            old == Flushed(tx.pre, tx.preCache, writeback)
            from == IF ns.start >= ns.stop THEN ns.start ELSE ns.stop
        IN  /\ remote = SubSeq(old, 1, ns.start) \o PickleAll(tx.seq)
                            \o SubSeq(old, from + 1, n)
            /\ ns.start >= ns.stop => Len(remote) = n + Len(tx.seq)

\* The cache c after the removal of position p, by the rule: keys < p
\* stay, key p is dropped, keys > p move down by one.
RemoveRule(c, p) ==
    [k \in {i \in DOMAIN c : i < p} \cup {i - 1 : i \in {j \in DOMAIN c : j > p}}
        |-> IF k < p THEN c[k] ELSE c[k + 1]]

\* C17: with write-back, a scalar pop at absolute position p (head, tail
\* or middle) returns the cached value for p when p is cached and the
\* remote one otherwise, and leaves the cache renumbered for the removal
\* of p: keys < p unchanged, p gone, keys > p one down.
C17_PopRenumbering ==
    (Done("pop") /\ writeback /\ InRange(tx.pre, tx.index)) =>
        LET p == AbsPos(tx.pre, tx.index)
        IN  /\ tx.status = "ok"
            /\ tx.ret = CacheGet(tx.preCache, p, Unpickle(tx.pre[p + 1]))
            /\ cache = RemoveRule(tx.preCache, p)

\* C18: when the body of a middle pop or a middle insert was aborted by a
\* change of the watched key and run again, the cache after the call is
\* the cache before the call renumbered once, for the committed change.
C18_RetryRenumbersOnce ==
    (pc = "done" /\ writeback /\ tx.status = "ok" /\ tx.attempts > 1
        /\ tx.op \in {"pop", "insert"}) =>
        cache = IF tx.op = "pop" THEN RemoveRule(tx.preCache, tx.ci)
                ELSE InsertRule(tx.preCache, tx.ci, tx.value)

\* C19: in every state of the remote list, whatever other clients do
\* between the steps of a middle pop, no element is the instance's marker:
\* the LSET of the marker and the LREM of it take effect together or not
\* at all.
C19_MarkerNeverVisible ==
    \A k \in 1..Len(remote) : remote[k] # Marker

\* A middle pop has committed its LSET marker and LREM marker after
\* another client changed the list and the first attempt was aborted.
C19_Witness ==
    /\ Done("pop") /\ tx.status = "ok" /\ tx.attempts > 1 /\ tx.interfered
    /\ tx.queue = <<CmdLSet(tx.index, Marker), CmdLRem(Marker)>>
    /\ Len(remote) = Len(tx.lin) - 1
    /\ C19_MarkerNeverVisible

\* What the call of frame f does to an ordinary list e.
ListAfter(e, f) ==
    LET p == IF f.index < 0 THEN Len(e) + f.index ELSE f.index
    IN  IF f.op = "append" THEN Append(e, f.value)
        ELSE IF f.op = "insert" THEN InsertAt(e, p, f.value)
        ELSE IF f.op = "set" THEN [e EXCEPT ![p + 1] = f.value]
        ELSE IF f.op = "pop" THEN RemoveAt(e, p)
        ELSE e

====
